---- MODULE Spec2Model ----
(***************************************************************************)
(* The upload ledger of Temporal (models/upload.go): the uploads table     *)
(* behind gorm, UploadManager's NewUpload, UpdateUpload and the two        *)
(* garbage-collection runs, and the garbage collector that publishes a     *)
(* removal intent for every record a run returns.                          *)
(*                                                                         *)
(* Time is counted in months: one unit of `now` is one month, so that      *)
(* CalculateGarbageCollectDate(h) is now + h.  The store's reads succeed;  *)
(* its writes (Create, Save, Delete) may fail, chosen by the caller of     *)
(* each action.                                                            *)
(***************************************************************************)
EXTENDS Integers, Sequences, FiniteSets, TLC

\* ------------------------------------------------------------- bounds ---
MaxRows == 2        \* rows ever inserted in the uploads table
MaxTime == 2        \* the clock runs over 0..MaxTime

Hashes   == {"Qm1", "Qm2"}
Networks == {"public"}
Users    == {"alice"}
Types    == {"pin"}
Names    == {"doc"}
Holds      == {-1, 0, 1}   \* what a caller may pass: any int64, in months
ValidHolds == {0, 1}       \* the hold times of well-formed requests

\* --------------------------------------------------------- Upload row ---
\* gorm.Model gives ID and DeletedAt (a soft delete): Deleted is
\* "DeletedAt IS NOT NULL".  Every query of gorm skips deleted rows.
MakeUpload(id, hash, type, name, net, hold, user, gcd, users, deleted) ==
    [ ID |-> id, Hash |-> hash, Type |-> type, Name |-> name,
      NetworkName |-> net, HoldTimeInMonths |-> hold, UserName |-> user,
      GarbageCollectDate |-> gcd, UserNames |-> users, Deleted |-> deleted ]

\* the nil *Upload
NoUpload == MakeUpload(0, "", "", "", "", 0, "", 0, <<>>, FALSE)

\* ------------------------------------------ fmt.Sprintf / strconv.Atoi ---
DigitChars == <<"0", "1", "2", "3", "4", "5", "6", "7", "8", "9">>

RECURSIVE FormatUint(_)
FormatUint(n) ==
    IF n < 10 THEN << DigitChars[n + 1] >>
    ELSE FormatUint(n \div 10) \o << DigitChars[(n % 10) + 1] >>

\* Sprintf("%+v", n) when plus, Sprintf("%v", n) otherwise, for an int64 n
Sprintf(plus, n) ==
    IF n < 0 THEN << "-" >> \o FormatUint(0 - n)
    ELSE (IF plus THEN << "+" >> ELSE << >>) \o FormatUint(n)

IsDigit(c) == \E d \in 1..10 : DigitChars[d] = c

DigitVal(c) == (CHOOSE d \in 1..10 : DigitChars[d] = c) - 1

RECURSIVE ParseUint(_)
ParseUint(s) ==
    IF Len(s) = 0 THEN 0
    ELSE 10 * ParseUint(SubSeq(s, 1, Len(s) - 1)) + DigitVal(s[Len(s)])

\* strconv.Atoi: an optional sign, then one or more decimal digits.  The
\* values of the model are far inside the range of int.
Atoi(s) ==
    LET signed == Len(s) > 0 /\ s[1] \in {"+", "-"}
        digits == IF signed THEN Tail(s) ELSE s
    IN  IF Len(digits) = 0 \/ \E i \in 1..Len(digits) : ~IsDigit(digits[i])
          THEN [err |-> "invalid syntax", val |-> 0]
          ELSE [err |-> "nil",
                val |-> IF signed /\ s[1] = "-" THEN 0 - ParseUint(digits)
                        ELSE ParseUint(digits)]

\* utils.CalculateGarbageCollectDate, called at time t
CalculateGarbageCollectDate(t, holdInt) == t + holdInt

\* ------------------------------------------------------- gorm queries ---
\* a Find that does not skip the soft-deleted rows
FindUnscoped(tbl) == tbl

\* db.Find(&uploads): every row that is not soft-deleted, by ID
Find(tbl) == SelectSeq(tbl, LAMBDA u : ~u.Deleted)

\* a lookup whose WHERE leaves the hash out
FindUploadByNetworkAndUser(tbl, hash, networkName, username) ==
    LET hits == SelectSeq(Find(tbl), LAMBDA u : /\ u.NetworkName = networkName
                                                /\ u.UserName = username)
    IN  IF Len(hits) = 0
          THEN [err |-> "record not found", upload |-> NoUpload]
          ELSE [err |-> "nil", upload |-> hits[1]]

\* db.Where(hash, network_name, user_name).First(upload)
FindUploadByHashAndNetworkAndUser(tbl, hash, networkName, username) ==
    LET hits == SelectSeq(Find(tbl), LAMBDA u : /\ u.Hash = hash
                                                /\ u.NetworkName = networkName
                                                /\ u.UserName = username)
    IN  IF Len(hits) = 0
          THEN [err |-> "record not found", upload |-> NoUpload]
          ELSE [err |-> "nil", upload |-> hits[1]]

\* um.DB.Find(&uploads).Where("hash = ?", hash): Find runs the query as it
\* stands, without a condition, and fills uploads; the Where that follows
\* adds its condition to a statement nothing runs.  No error is returned.
FindUploadsByHash(tbl, hash) == Find(tbl)

\* um.DB.Find(&uploads).Where("hash = ? AND user_name = ?", hash, username)
GetUploadByHashForUser(tbl, hash, username) == Find(tbl)

\* db.Create(&upload): INSERT, the store assigns the next ID
Create(tbl, upload, fails) ==
    IF fails THEN [err |-> "store", upload |-> upload, uploads |-> tbl]
    ELSE LET u == [upload EXCEPT !.ID = Len(tbl) + 1]
         IN  [err |-> "nil", upload |-> u, uploads |-> Append(tbl, u)]

\* db.Save(upload), the ID set: UPDATE ... WHERE deleted_at IS NULL AND
\* id = ?; when no row is updated gorm falls back to an INSERT with the
\* same ID, which the primary key rejects.
Save(tbl, upload, fails) ==
    IF fails \/ upload.ID \notin 1..Len(tbl) \/ tbl[upload.ID].Deleted
      THEN [err |-> "store", uploads |-> tbl]
      ELSE [err |-> "nil", uploads |-> [tbl EXCEPT ![upload.ID] = upload]]

\* a soft-deleted row: no query reads its columns again, the table keeps
\* its ID
Tombstone(id) == MakeUpload(id, "", "", "", "", 0, "", 0, << >>, TRUE)

\* db.Delete(&v): UPDATE ... SET deleted_at = now WHERE deleted_at IS NULL
\* AND id = ?; no row matching is no error
Delete(tbl, id, fails) ==
    IF fails THEN [err |-> "store", uploads |-> tbl]
    ELSE [err |-> "nil",
          uploads |-> IF id \in 1..Len(tbl)
                        THEN [tbl EXCEPT ![id] = Tombstone(id)] ELSE tbl]

\* ------------------------------------------------------ UploadManager ---
\* lines 46-59 of NewUpload: the record built at time t, before the INSERT
BuildUpload(t, contentHash, uploadType, networkName, username, name, holdTimeInMonths) ==
    LET conv == Atoi(Sprintf(TRUE, holdTimeInMonths))
    IN  [err |-> conv.err,
         upload |-> MakeUpload(0, contentHash, uploadType, name, networkName,
                               holdTimeInMonths, username,
                               CalculateGarbageCollectDate(t, conv.val),
                               << username >>, FALSE)]

\* NewUpload without the lookup of an existing record
NewUploadUnchecked(tbl, t, contentHash, uploadType, networkName, username, name, holdTimeInMonths, fails) ==
    LET built == BuildUpload(t, contentHash, uploadType, networkName, username,
                             name, holdTimeInMonths)
        check == Create(tbl, built.upload, fails)
    IN  IF built.err # "nil" \/ check.err # "nil"
          THEN [err |-> "store", upload |-> NoUpload, uploads |-> tbl]
          ELSE [err |-> "nil", upload |-> check.upload, uploads |-> check.uploads]

\* NewUpload at time t; fails: the store rejects the INSERT
NewUpload(tbl, t, contentHash, uploadType, networkName, username, name, holdTimeInMonths, fails) ==
    LET found == FindUploadByHashAndNetworkAndUser(tbl, contentHash,
                                                   networkName, username)
        built == BuildUpload(t, contentHash, uploadType, networkName, username,
                             name, holdTimeInMonths)
        check == Create(tbl, built.upload, fails)
    IN  IF found.err = "nil"
          THEN [err |-> "duplicate", upload |-> NoUpload, uploads |-> tbl]
        ELSE IF built.err # "nil"
          THEN [err |-> built.err, upload |-> NoUpload, uploads |-> tbl]
        ELSE IF check.err # "nil"
          THEN [err |-> check.err, upload |-> NoUpload, uploads |-> tbl]
        ELSE [err |-> "nil", upload |-> check.upload, uploads |-> check.uploads]

\* a renewal that stores the new date whatever the old one is
ExtendHoldOverwrite(upload, holdTimeInMonths, oldGcd, newGcd) ==
    [upload EXCEPT !.HoldTimeInMonths = holdTimeInMonths,
                   !.GarbageCollectDate = newGcd]

\* a renewal with the comparison the wrong way round, storing the new date
ExtendHoldShorten(upload, holdTimeInMonths, oldGcd, newGcd) ==
    IF newGcd < oldGcd
      THEN [upload EXCEPT !.HoldTimeInMonths = holdTimeInMonths,
                          !.GarbageCollectDate = newGcd]
      ELSE upload

\* lines 87-92 of UpdateUpload: the hold time and the date of a renewal
ExtendHold(upload, holdTimeInMonths, oldGcd, newGcd) ==
    IF newGcd > oldGcd
      THEN [upload EXCEPT !.HoldTimeInMonths = holdTimeInMonths,
                          !.GarbageCollectDate = oldGcd]
      ELSE upload

\* a renewal that appends the user without looking for it first
RenewedAlwaysAppends(upload, t, holdTimeInMonths, username) ==
    LET u1 == [upload EXCEPT !.UserName = username]
        u2 == [u1 EXCEPT !.UserNames = Append(@, username)]
        conv == Atoi(Sprintf(FALSE, holdTimeInMonths))
    IN  [err |-> conv.err,
         upload |-> ExtendHold(u2, holdTimeInMonths, u2.GarbageCollectDate,
                               CalculateGarbageCollectDate(t, conv.val))]

\* lines 72-92 of UpdateUpload: the record as modified at time t, before
\* the Save
Renewed(upload, t, holdTimeInMonths, username) ==
    LET u1 == [upload EXCEPT !.UserName = username]
        isUploader == \E i \in 1..Len(u1.UserNames) : u1.UserNames[i] = username
        u2 == IF ~isUploader
                THEN [u1 EXCEPT !.UserNames = Append(@, username)] ELSE u1
        conv == Atoi(Sprintf(FALSE, holdTimeInMonths))
    IN  [err |-> conv.err,
         upload |-> ExtendHold(u2, holdTimeInMonths, u2.GarbageCollectDate,
                               CalculateGarbageCollectDate(t, conv.val))]

\* line 93-96 of UpdateUpload: when the Save fails the function returns err,
\* which is the nil error Atoi returned
SaveRenewed(tbl, mod, fails) ==
    LET check == Save(tbl, mod.upload, fails)
    IN  IF check.err # "nil"
          THEN [err |-> mod.err, upload |-> NoUpload, uploads |-> tbl]
          ELSE [err |-> "nil", upload |-> mod.upload, uploads |-> check.uploads]

\* UpdateUpload at time t; fails: the store rejects the UPDATE
UpdateUpload(tbl, t, holdTimeInMonths, username, contentHash, networkName, fails) ==
    LET found == FindUploadByHashAndNetworkAndUser(tbl, contentHash,
                                                   networkName, username)
        mod   == Renewed(found.upload, t, holdTimeInMonths, username)
    IN  IF found.err # "nil"
          THEN [err |-> found.err, upload |-> NoUpload, uploads |-> tbl]
        ELSE IF mod.err # "nil"
          THEN [err |-> mod.err, upload |-> NoUpload, uploads |-> tbl]
        ELSE SaveRenewed(tbl, mod, fails)

\* line 110: time.Now().Unix() > v.GarbageCollectDate.Unix()
Expired(t, v) == t > v.GarbageCollectDate

\* the loop of RunDatabaseGarbageCollection over the rows found, from the
\* i-th on; calls counts the Deletes issued, the failAt-th of which fails
RECURSIVE CollectLoop(_, _, _, _, _, _, _)
CollectLoop(found, i, tbl, deletedUploads, t, calls, failAt) ==
    IF i > Len(found)
      THEN [err |-> "nil", deleted |-> deletedUploads, uploads |-> tbl]
    ELSE IF Expired(t, found[i])
      THEN LET check == Delete(tbl, found[i].ID, calls + 1 = failAt)
           IN  IF check.err # "nil"
                 THEN [err |-> check.err, deleted |-> << >>,
                       uploads |-> check.uploads]
                 ELSE CollectLoop(found, i + 1, check.uploads,
                                  Append(deletedUploads, found[i]), t,
                                  calls + 1, failAt)
    ELSE CollectLoop(found, i + 1, tbl, deletedUploads, t, calls, failAt)

RunDatabaseGarbageCollection(tbl, t, failAt) ==
    CollectLoop(Find(tbl), 1, tbl, << >>, t, 0, failAt)

\* the loop of RunTestDatabaseGarbageCollection
RECURSIVE TestCollectLoop(_, _, _, _, _)
TestCollectLoop(found, i, tbl, deletedUploads, failAt) ==
    IF i > Len(found)
      THEN [err |-> "nil", deleted |-> deletedUploads, uploads |-> tbl]
      ELSE LET check == Delete(tbl, found[i].ID, i = failAt)
           IN  IF check.err # "nil"
                 THEN [err |-> check.err, deleted |-> << >>,
                       uploads |-> check.uploads]
                 ELSE TestCollectLoop(found, i + 1, check.uploads,
                                      Append(deletedUploads, found[i]), failAt)

dev == TRUE

RunTestDatabaseGarbageCollection(tbl, failAt) ==
    IF ~dev THEN [err |-> "not in dev mode", deleted |-> << >>, uploads |-> tbl]
    ELSE TestCollectLoop(Find(tbl), 1, tbl, << >>, failAt)

\* ---------------------------------------------------- garbage collector ---
\* the removal intent for one record a run returned
RemovalIntent(v) == [kind |-> "unpin", hash |-> v.Hash, network |-> v.NetworkName]

\* the intents the collector publishes after a run: one per returned record,
\* none when the run returned an error
SweepIntents(run) ==
    IF run.err # "nil" THEN << >>
    ELSE [i \in 1..Len(run.deleted) |-> RemovalIntent(run.deleted[i])]

\* --------------------------------------------------------- API requests ---
\* a form field of a request: GetPostForm returns its value and whether the
\* request carries it
Form(exists, value) == [exists |-> exists, value |-> value]

\* the user the cluster removal route is open to
AdminAddress == "admin"

\* the :hash parameters requests come with: the content IDs gocid.Decode
\* takes, and one it refuses
CidForms == Hashes \cup {"Qm!"}

\* gocid.Decode(hash), by its error
Decode(hash) == [err |-> IF hash \in Hashes THEN "nil" ELSE "invalid cid"]

\* strconv.ParseInt(s, 10, 64): the syntax of Atoi, negative numbers
\* included
ParseInt(s) == Atoi(s)

\* the network_name fields requests come with
NetworkForms == {Form(FALSE, ""), Form(TRUE, "net1")}

\* the hold_time fields requests come with: none, "1", "-1" and "x"
HoldForms ==
    {Form(FALSE, << >>), Form(TRUE, << "1" >>), Form(TRUE, << "-", "1" >>),
     Form(TRUE, << "x" >>)}

\* the call that fails while a request is handled, as << function, argument >>
NoFailure == << "", "" >>

\* a request: the handler it is routed to, the authenticated user, the
\* fields it carries and the one call, if any, that returns an error
Request(handler, user, networkName, hash, holdTime, fails) ==
    [ hash |-> hash, user |-> user, networkName |-> networkName,
      fails |-> fails, handler |-> handler, holdTime |-> holdTime ]

NoRequest == Request("", "", Form(FALSE, ""), "", Form(FALSE, << >>), NoFailure)

\* the HoldTimeInMonths of a message: an int64, the string of IPFSFile, or
\* no such field
HoldInt(n)  == [type |-> "int64", val |-> n, text |-> << >>]
HoldText(s) == [type |-> "string", val |-> 0, text |-> s]
NoHold      == [type |-> "none", val |-> 0, text |-> << >>]

\* a message of the queue package, by the name of its struct
Intent(kind, hash, network, user, hold) ==
    [hash |-> hash, hold |-> hold, user |-> user, kind |-> kind,
     network |-> network]

NoIntent == Intent("", "", "", "", NoHold)

\* one statement of a handler: the call ev(arg) and whether it succeeds;
\* when it does not, the handler logs the message log, if any, answers with
\* fail and returns.  intent: the message the call publishes
Step(ev, arg, ok, log, fail, intent) ==
    [ev |-> ev, arg |-> arg, ok |-> ok, log |-> log, fail |-> fail,
     intent |-> intent]

\* an entry of the trace of a request
Event(ev, arg, ok, intent) == [ev |-> ev, arg |-> arg, ok |-> ok, intent |-> intent]

LogError(message) == Event("LogError", message, TRUE, NoIntent)

\* FailOnError, FailOnServerError, FailNoExistPostForm, FailNotAuthorized:
\* the error response, by the helper that sends it
Fail(helper) == Event(helper, "", TRUE, NoIntent)

\* Respond(c, http.StatusOK, ...)
RespondOK == Event("Respond", "200", TRUE, NoIntent)

\* a handler whose error branches lack the return: it answers with the
\* error response and goes on
RECURSIVE HandleWithoutReturn(_, _, _)
HandleWithoutReturn(steps, i, done) ==
    IF i > Len(steps) THEN Append(done, RespondOK)
    ELSE LET s == steps[i]
             e == Event(s.ev, s.arg, s.ok, s.intent)
         IN  IF s.ok THEN HandleWithoutReturn(steps, i + 1, Append(done, e))
             ELSE HandleWithoutReturn(steps, i + 1,
                    Append(done, e)
                      \o (IF s.log # "" THEN << LogError(s.log) >> ELSE << >>)
                      \o << Fail(s.fail) >>)

\* a handler runs its statements in order; the first that fails ends the
\* request with its error response, and when none fails the handler ends
\* with Respond
RECURSIVE Handle(_, _, _)
Handle(steps, i, done) ==
    IF i > Len(steps) THEN Append(done, RespondOK)
    ELSE LET s == steps[i]
             e == Event(s.ev, s.arg, s.ok, s.intent)
         IN  IF s.ok THEN Handle(steps, i + 1, Append(done, e))
             ELSE Append(done, e)
                    \o (IF s.log # "" THEN << LogError(s.log) >> ELSE << >>)
                    \o << Fail(s.fail) >>

\* a call to another service, which fails when the request says so
Works(r, ev, arg) == r.fails # << ev, arg >>

\* c.GetPostForm(name) of a field the request carries or not
GetPostForm(name, form) ==
    Step("GetPostForm", name, form.exists, "", "FailNoExistPostForm", NoIntent)

\* c.GetPostForm(name) of a field the model keeps no value of
GetOtherForm(r, name) ==
    Step("GetPostForm", name, Works(r, "GetPostForm", name), "",
         "FailNoExistPostForm", NoIntent)

CheckAccessForPrivateNetwork(r) ==
    Step("CheckAccessForPrivateNetwork", r.networkName.value,
         Works(r, "CheckAccessForPrivateNetwork", r.networkName.value),
         "PrivateNetworkAccessError", "FailOnError", NoIntent)

DecodeHash(r) ==
    Step("gocid.Decode", r.hash, Decode(r.hash).err = "nil", "", "FailOnError",
         NoIntent)

ParseHoldTime(r) ==
    Step("strconv.ParseInt", "hold_time", ParseInt(r.holdTime.value).err = "nil",
         "", "FailOnError", NoIntent)

\* a call that is logged with message log and answered with FailOnError
\* when it fails
Service(r, ev, arg, log) ==
    Step(ev, arg, Works(r, ev, arg), log, "FailOnError", NoIntent)

\* a check of the request that is answered with FailOnError and not logged
UserCheck(r, ev, arg) == Step(ev, arg, Works(r, ev, arg), "", "FailOnError", NoIntent)

\* qm, err := queue.Initialize(queueName, ...), answered with fail
Initialize(r, queueName, fail) ==
    Step("queue.Initialize", queueName, Works(r, "queue.Initialize", queueName),
         "QueueInitializationError", fail, NoIntent)

\* qm.PublishMessage(intent) or qm.PublishMessageWithExchange(intent, ...)
\* on the handle of queueName, answered with fail
Publish(r, ev, queueName, intent, fail) ==
    Step(ev, queueName, Works(r, ev, queueName), "QueuePublishError", fail, intent)

\* ------------------------------------------------------------- handlers ---
\* routes_rtfs_cluster.go
pinHashToCluster(r) ==
    << DecodeHash(r),
       GetPostForm("hold_time", r.holdTime),
       ParseHoldTime(r),
       Initialize(r, "IpfsClusterPinQueue", "FailOnError"),
       Publish(r, "PublishMessage", "IpfsClusterPinQueue",
               Intent("IPFSClusterPin", r.hash, "public", r.user,
                      HoldInt(ParseInt(r.holdTime.value).val)),
               "FailOnError") >>

removePinFromCluster(r) ==
    << Step("AdminAddress", r.user, r.user = AdminAddress, "",
            "FailNotAuthorized", NoIntent),
       DecodeHash(r),
       Service(r, "rtfs_cluster.Initialize", "", "IPFSClusterConnectionError"),
       Service(r, "RemovePinFromCluster", r.hash, "IPFSClusterPinRemovalError") >>

\* a pin handler that connects to the queue before it checks the access
pinToHostedIPFSNetworkQueueFirst(r) ==
    << GetPostForm("network_name", r.networkName),
       Initialize(r, "IpfsPinQueue", "FailOnServerError"),
       CheckAccessForPrivateNetwork(r),
       DecodeHash(r),
       GetPostForm("hold_time", r.holdTime),
       ParseHoldTime(r),
       Publish(r, "PublishMessageWithExchange", "IpfsPinQueue",
               Intent("IPFSPin", r.hash, r.networkName.value, r.user,
                      HoldInt(ParseInt(r.holdTime.value).val)),
               "FailOnServerError") >>

\* the handlers of the hosted private networks
pinToHostedIPFSNetwork(r) ==
    << GetPostForm("network_name", r.networkName),
       CheckAccessForPrivateNetwork(r),
       DecodeHash(r),
       GetPostForm("hold_time", r.holdTime),
       ParseHoldTime(r),
       Initialize(r, "IpfsPinQueue", "FailOnServerError"),
       Publish(r, "PublishMessageWithExchange", "IpfsPinQueue",
               Intent("IPFSPin", r.hash, r.networkName.value, r.user,
                      HoldInt(ParseInt(r.holdTime.value).val)),
               "FailOnServerError") >>

\* the hold_time goes into the message as the string the request carries
addFileToHostedIPFSNetworkAdvanced(r) ==
    << GetPostForm("network_name", r.networkName),
       CheckAccessForPrivateNetwork(r),
       GetPostForm("hold_time", r.holdTime),
       Service(r, "mini.NewMinioManager", "", "MinioConnectionError"),
       UserCheck(r, "FormFile", "file"),
       UserCheck(r, "FileSizeCheck", ""),
       Service(r, "Open", "", "FileOpenError"),
       Service(r, "PutObject", "", "MinioPutError"),
       Initialize(r, "IpfsFileQueue", "FailOnError"),
       Publish(r, "PublishMessage", "IpfsFileQueue",
               Intent("IPFSFile", "", r.networkName.value, r.user,
                      HoldText(r.holdTime.value)),
               "FailOnError") >>

\* r.hash: the hash ipfsManager.Add returns for the file.  The second
\* queue.Initialize assigns to the qm of the first
addFileToHostedIPFSNetwork(r) ==
    << GetPostForm("network_name", r.networkName),
       CheckAccessForPrivateNetwork(r),
       GetPostForm("hold_time", r.holdTime),
       ParseHoldTime(r),
       Service(r, "GetAPIURLByName", "", "APIURLCheckError"),
       Service(r, "rtfs.Initialize", "", "IPFSConnectionError"),
       Initialize(r, "DatabaseFileAddQueue", "FailOnError"),
       UserCheck(r, "FormFile", "file"),
       UserCheck(r, "FileSizeCheck", ""),
       Service(r, "Open", "", "FileOpenError"),
       Service(r, "Add", "", "IPFSAddError"),
       Publish(r, "PublishMessage", "DatabaseFileAddQueue",
               Intent("DatabaseFileAdd", r.hash, r.networkName.value, r.user,
                      HoldInt(ParseInt(r.holdTime.value).val)),
               "FailOnError"),
       Initialize(r, "IpfsPinQueue", "FailOnError"),
       Publish(r, "PublishMessageWithExchange", "IpfsPinQueue",
               Intent("IPFSPin", r.hash, r.networkName.value, r.user,
                      HoldInt(ParseInt(r.holdTime.value).val)),
               "FailOnError") >>

removePinFromLocalHostForHostedIPFSNetwork(r) ==
    << DecodeHash(r),
       GetPostForm("network_name", r.networkName),
       CheckAccessForPrivateNetwork(r),
       Initialize(r, "IpfsPinRemovalQueue", "FailOnError"),
       Publish(r, "PublishMessageWithExchange", "IpfsPinRemovalQueue",
               Intent("IPFSPinRemoval", r.hash, r.networkName.value, r.user,
                      NoHold),
               "FailOnError") >>

\* the queue is initialized before the hash is read and decoded
publishDetailedIPNSToHostedIPFSNetwork(r) ==
    << GetPostForm("network_name", r.networkName),
       CheckAccessForPrivateNetwork(r),
       Initialize(r, "IpnsEntryQueue", "FailOnError"),
       GetOtherForm(r, "hash"),
       DecodeHash(r),
       GetOtherForm(r, "life_time"),
       GetOtherForm(r, "ttl"),
       GetOtherForm(r, "key"),
       GetOtherForm(r, "resolve"),
       Service(r, "CheckIfKeyOwnedByUser", "", "KeySearchError"),
       Service(r, "ownsKey", "", "KeyUseError"),
       UserCheck(r, "strconv.ParseBool", "resolve"),
       UserCheck(r, "time.ParseDuration", "life_time"),
       UserCheck(r, "time.ParseDuration", "ttl"),
       Publish(r, "PublishMessage", "IpnsEntryQueue",
               Intent("IPNSEntry", r.hash, r.networkName.value, r.user, NoHold),
               "FailOnError") >>

getUploadsByNetworkName(r) ==
    << GetPostForm("network_name", r.networkName),
       CheckAccessForPrivateNetwork(r),
       Service(r, "FindUploadsByNetwork", r.networkName.value,
               "UploadSearchError") >>

\* the statements of the handler a request is routed to
Statements(r) ==
    CASE r.handler = "pinHashToCluster" -> pinHashToCluster(r)
      [] r.handler = "removePinFromCluster" -> removePinFromCluster(r)
      [] r.handler = "pinToHostedIPFSNetwork" -> pinToHostedIPFSNetwork(r)
      [] r.handler = "addFileToHostedIPFSNetworkAdvanced" ->
            addFileToHostedIPFSNetworkAdvanced(r)
      [] r.handler = "addFileToHostedIPFSNetwork" -> addFileToHostedIPFSNetwork(r)
      [] r.handler = "removePinFromLocalHostForHostedIPFSNetwork" ->
            removePinFromLocalHostForHostedIPFSNetwork(r)
      [] r.handler = "publishDetailedIPNSToHostedIPFSNetwork" ->
            publishDetailedIPNSToHostedIPFSNetwork(r)
      [] r.handler = "getUploadsByNetworkName" -> getUploadsByNetworkName(r)
      [] OTHER -> << >>

\* the calls the handler of request r makes that can fail whatever the
\* request carries
FailurePoints(r) ==
    {p \in {<< Statements(r)[i].ev, Statements(r)[i].arg >> :
               i \in 1..Len(Statements(r))} :
        \E i \in 1..Len(Statements(r)) :
            /\ Statements(r)[i].ok
            /\ ~Statements([r EXCEPT !.fails = p])[i].ok}

\* the requests routed to the handler name: every combination of the fields
\* given, with no call failing or one of the calls the handler makes
Requests(name, users, networks, hashes, holds) ==
    UNION { LET r == Request(name, u, n, h, t, NoFailure)
            IN  {[r EXCEPT !.fails = p] : p \in {NoFailure} \cup FailurePoints(r)} :
            u \in users, n \in networks, h \in hashes, t \in holds }

\* the messages the broker accepted in a trace, in order
RECURSIVE Published(_)
Published(t) ==
    IF t = << >> THEN << >>
    ELSE (IF Head(t).ev \in {"PublishMessage", "PublishMessageWithExchange"}
             /\ Head(t).ok
            THEN << Head(t).intent >> ELSE << >>) \o Published(Tail(t))

\* the number of events of a trace that are the call ev and succeeded
Count(t, ev) == Cardinality({i \in 1..Len(t) : t[i].ev = ev /\ t[i].ok})

\* the queue handles a trace acquires, and those it closes
Acquired(t) == Count(t, "queue.Initialize")
Released(t) == Count(t, "qm.Close")

\* ----------------------------------------------------------------- state ---
Workers   == {"w1", "w2"}      \* request workers, each handling one call
Collector == "gc"              \* the periodic garbage-collection task

VARIABLES
    uploads,    \* the uploads table: a sequence of rows, row i has ID i
    now,        \* the clock
    queue,      \* the intents the broker has accepted, in order
    last,       \* the last call: its name, arguments and what it returned
    pc,         \* where each worker and the collector stand in their call
    pending,    \* the record a worker holds between its lookup and its write
    run,        \* the collector's run: the rows it found, the next to visit
    saved,      \* IDs of the rows saved since the collector's Find
    req,        \* the last request the API handled: what the caller sent and
                \* what the services the handler called answered
    trace,      \* what the handler of that request did, in order
    handles,    \* the queue handles acquired and not released
    inflight,   \* the request each worker is handling
    ip,         \* the message each request has built, by the memory it is in
    qm,         \* the queue each worker's handle is connected to
    result,     \* the records the last read query returned
    exHeaders,  \* the extra_headers form of the last download request
    extraHeaders, \* the extra headers of the answer to that request
    statusAll   \* the local statuses the cluster reported to the last sync

vars ==
    << uploads, now, queue, last, pc, pending, run, saved, req, trace, handles,
       inflight, ip, qm, result, exHeaders, extraHeaders, statusAll >>

\* prev: how many records the call just before returned, when that call was
\* a run of RunDatabaseGarbageCollection that returned no error; else -1
Call(op, hash, net, user, hold, err, upload, deleted, prev) ==
    [ op |-> op, hash |-> hash, net |-> net, user |-> user, hold |-> hold,
      err |-> err, upload |-> upload, deleted |-> deleted, prev |-> prev ]

NoRun == [found |-> << >>, i |-> 0]

Init ==
    /\ uploads = << >>
    /\ now = 0
    /\ queue = << >>
    /\ last = Call("init", "", "", "", 0, "nil", NoUpload, << >>, -1)
    /\ pc = [p \in Workers \cup {Collector} |-> "idle"]
    /\ pending = [w \in Workers |-> NoUpload]
    /\ run = NoRun
    /\ saved = {}
    /\ req = NoRequest
    /\ trace = << >>
    /\ handles = 0
    /\ inflight = [w \in Workers |-> NoRequest]
    /\ ip = [w \in Workers |-> NoIntent]
    /\ qm = [w \in Workers |-> ""]
    /\ result = << >>
    /\ exHeaders = << >>
    /\ extraHeaders = << >>
    /\ statusAll = << >>

\* time passes
Tick ==
    /\ now < MaxTime
    /\ now' = now + 1
    /\ last' = Call("Tick", "", "", "", 0, "nil", NoUpload, << >>, -1)
    /\ UNCHANGED << uploads, queue, pc, pending, run, saved, req, trace, handles, inflight, ip, qm, result, exHeaders, extraHeaders, statusAll >>

\* -------------------------------------------- calls that run undisturbed ---
CallNewUpload ==
    /\ \E hash \in Hashes, type \in Types, net \in Networks, user \in Users,
          name \in Names, hold \in Holds, fails \in BOOLEAN :
         LET r == NewUpload(uploads, now, hash, type, net, user, name, hold, fails)
         IN  /\ Len(r.uploads) <= MaxRows
             /\ uploads' = r.uploads
             /\ last' = Call("NewUpload", hash, net, user, hold, r.err,
                             r.upload, << >>, -1)
    /\ UNCHANGED << now, queue, pc, pending, run, saved, req, trace, handles, inflight, ip, qm, result, exHeaders, extraHeaders, statusAll >>

CallUpdateUpload ==
    /\ \E hash \in Hashes, net \in Networks, user \in Users, hold \in Holds,
          fails \in BOOLEAN :
         LET r == UpdateUpload(uploads, now, hold, user, hash, net, fails)
         IN  /\ uploads' = r.uploads
             /\ last' = Call("UpdateUpload", hash, net, user, hold, r.err,
                             r.upload, << >>, -1)
    /\ UNCHANGED << now, queue, pc, pending, run, saved, req, trace, handles, inflight, ip, qm, result, exHeaders, extraHeaders, statusAll >>

\* what prev is for the call after `last`
PrevRun ==
    IF last.op = "RunDatabaseGarbageCollection" /\ last.err = "nil"
      THEN Len(last.deleted) ELSE -1

CallRunDatabaseGarbageCollection ==
    /\ \E failAt \in 0..MaxRows :
         LET r == RunDatabaseGarbageCollection(uploads, now, failAt)
         IN  /\ uploads' = r.uploads
             /\ last' = Call("RunDatabaseGarbageCollection", "", "", "", 0,
                             r.err, NoUpload, r.deleted, PrevRun)
    /\ UNCHANGED << now, queue, pc, pending, run, saved, req, trace, handles, inflight, ip, qm, result, exHeaders, extraHeaders, statusAll >>

CallRunTestDatabaseGarbageCollection ==
    /\ \E failAt \in 0..MaxRows :
         LET r == RunTestDatabaseGarbageCollection(uploads, failAt)
         IN  /\ uploads' = r.uploads
             /\ last' = Call("RunTestDatabaseGarbageCollection", "", "", "", 0,
                             r.err, NoUpload, r.deleted, -1)
    /\ UNCHANGED << now, queue, pc, pending, run, saved, req, trace, handles, inflight, ip, qm, result, exHeaders, extraHeaders, statusAll >>

Next ==
    \/ Tick
    \/ CallNewUpload
    \/ CallUpdateUpload
    \/ CallRunDatabaseGarbageCollection
    \/ CallRunTestDatabaseGarbageCollection

Spec == Init /\ [][Next]_vars

\* ------------------------------------------- the collector and the queue ---
\* the garbage collector's sweep: one run, then the removal intents
GarbageCollectorSweep ==
    /\ \E failAt \in 0..MaxRows :
         LET r == RunDatabaseGarbageCollection(uploads, now, failAt)
         IN  /\ uploads' = r.uploads
             /\ queue' = queue \o SweepIntents(r)
             /\ last' = Call("sweep", "", "", "", 0, r.err, NoUpload,
                             r.deleted, -1)
    /\ UNCHANGED << now, pc, pending, run, saved, req, trace, handles, inflight, ip, qm, result, exHeaders, extraHeaders, statusAll >>

NextGC ==
    \/ Tick
    \/ CallNewUpload
    \/ CallUpdateUpload
    \/ GarbageCollectorSweep

GCSpec == Init /\ [][NextGC]_vars

\* ------------------------------------------------ calls that interleave ---
\* Each worker and the collector take one step per access to the store;
\* nothing orders the steps of different processes.  The requests carry
\* hold times of ValidHolds.

\* the rows in the table and the rows workers are about to insert
Claimed == Len(uploads) + Cardinality({w \in Workers : pc[w] = "create"})

\* NewUpload up to line 59: the lookup finds nothing, the record is built
NewUploadLookup(w) ==
    /\ pc[w] = "idle"
    /\ Claimed < MaxRows
    /\ \E hash \in Hashes, type \in Types, net \in Networks, user \in Users,
          name \in Names, hold \in ValidHolds :
         LET found == FindUploadByHashAndNetworkAndUser(uploads, hash, net, user)
             built == BuildUpload(now, hash, type, net, user, name, hold)
         IN  /\ found.err # "nil"
             /\ built.err = "nil"
             /\ pending' = [pending EXCEPT ![w] = built.upload]
    /\ pc' = [pc EXCEPT ![w] = "create"]
    /\ UNCHANGED << uploads, now, queue, last, run, saved, req, trace, handles, inflight, ip, qm, result, exHeaders, extraHeaders, statusAll >>

\* NewUpload from line 60: the INSERT
NewUploadCreate(w) ==
    /\ pc[w] = "create"
    /\ \E fails \in BOOLEAN :
         uploads' = Create(uploads, pending[w], fails).uploads
    /\ pc' = [pc EXCEPT ![w] = "idle"]
    /\ pending' = [pending EXCEPT ![w] = NoUpload]
    /\ UNCHANGED << now, queue, last, run, saved, req, trace, handles, inflight, ip, qm, result, exHeaders, extraHeaders, statusAll >>

\* UpdateUpload up to line 92: the lookup finds the record, which is
\* modified in memory
UpdateUploadLookup(w) ==
    /\ pc[w] = "idle"
    /\ \E hash \in Hashes, net \in Networks, user \in Users, hold \in ValidHolds :
         LET found == FindUploadByHashAndNetworkAndUser(uploads, hash, net, user)
             mod   == Renewed(found.upload, now, hold, user)
         IN  /\ found.err = "nil"
             /\ mod.err = "nil"
             /\ pending' = [pending EXCEPT ![w] = mod.upload]
    /\ pc' = [pc EXCEPT ![w] = "save"]
    /\ UNCHANGED << uploads, now, queue, last, run, saved, req, trace, handles, inflight, ip, qm, result, exHeaders, extraHeaders, statusAll >>

\* UpdateUpload from line 93: the Save
UpdateUploadSave(w) ==
    /\ pc[w] = "save"
    /\ \E fails \in BOOLEAN :
         LET r == SaveRenewed(uploads, [err |-> "nil", upload |-> pending[w]],
                              fails)
         IN  /\ uploads' = r.uploads
             /\ saved' = IF r.upload # NoUpload /\ pc[Collector] = "collect"
                           THEN saved \cup {pending[w].ID} ELSE saved
    /\ pc' = [pc EXCEPT ![w] = "idle"]
    /\ pending' = [pending EXCEPT ![w] = NoUpload]
    /\ UNCHANGED << now, queue, last, run, req, trace, handles, inflight, ip, qm, result, exHeaders, extraHeaders, statusAll >>

\* RunDatabaseGarbageCollection, line 106: the Find
CollectFind ==
    /\ pc[Collector] = "idle"
    /\ run' = [found |-> Find(uploads), i |-> 1]
    /\ saved' = {}
    /\ pc' = [pc EXCEPT ![Collector] = "collect"]
    /\ UNCHANGED << uploads, now, queue, last, pending, req, trace, handles, inflight, ip, qm, result, exHeaders, extraHeaders, statusAll >>

\* RunDatabaseGarbageCollection, lines 109-116: one turn of the loop, on the
\* row as the Find read it; a Delete that fails ends the run
CollectVisit ==
    /\ pc[Collector] = "collect"
    /\ run.i <= Len(run.found)
    /\ \E fails \in BOOLEAN :
         LET v     == run.found[run.i]
             check == IF Expired(now, v) THEN Delete(uploads, v.ID, fails)
                      ELSE [err |-> "nil", uploads |-> uploads]
         IN  /\ uploads' = check.uploads
             /\ run' = IF check.err = "nil" THEN [run EXCEPT !.i = @ + 1]
                       ELSE NoRun
             /\ pc' = IF check.err = "nil" THEN pc
                      ELSE [pc EXCEPT ![Collector] = "idle"]
    /\ UNCHANGED << now, queue, last, pending, saved, req, trace, handles, inflight, ip, qm, result, exHeaders, extraHeaders, statusAll >>

\* RunDatabaseGarbageCollection, line 117: the loop is over
CollectReturn ==
    /\ pc[Collector] = "collect"
    /\ run.i > Len(run.found)
    /\ run' = NoRun
    /\ pc' = [pc EXCEPT ![Collector] = "idle"]
    /\ UNCHANGED << uploads, now, queue, last, pending, saved, req, trace, handles, inflight, ip, qm, result, exHeaders, extraHeaders, statusAll >>

NextConc ==
    \/ Tick
    \/ \E w \in Workers : NewUploadLookup(w)
    \/ \E w \in Workers : NewUploadCreate(w)
    \/ \E w \in Workers : UpdateUploadLookup(w)
    \/ \E w \in Workers : UpdateUploadSave(w)
    \/ CollectFind
    \/ CollectVisit
    \/ CollectReturn

ConcSpec == Init /\ [][NextConc]_vars

\* ------------------------------------- several users, one content ID ---
\* the users who upload and renew the same content on the same network
Owners == {"alice", "bob"}

\* the content they share
Shared == "Qm1"

OwnerNewUpload ==
    /\ \E type \in Types, net \in Networks, user \in Owners, name \in Names,
          hold \in ValidHolds, fails \in BOOLEAN :
         LET r == NewUpload(uploads, now, Shared, type, net, user, name, hold, fails)
         IN  /\ Len(r.uploads) <= MaxRows
             /\ uploads' = r.uploads
             /\ last' = Call("NewUpload", Shared, net, user, hold, r.err,
                             r.upload, << >>, -1)
    /\ UNCHANGED << now, queue, pc, pending, run, saved, req, trace, handles, inflight, ip, qm, result, exHeaders, extraHeaders, statusAll >>

OwnerUpdateUpload ==
    /\ \E net \in Networks, user \in Owners, hold \in ValidHolds,
          fails \in BOOLEAN :
         LET r == UpdateUpload(uploads, now, hold, user, Shared, net, fails)
         IN  /\ uploads' = r.uploads
             /\ last' = Call("UpdateUpload", Shared, net, user, hold, r.err,
                             r.upload, << >>, -1)
    /\ UNCHANGED << now, queue, pc, pending, run, saved, req, trace, handles, inflight, ip, qm, result, exHeaders, extraHeaders, statusAll >>

NextOwners ==
    \/ Tick
    \/ OwnerNewUpload
    \/ OwnerUpdateUpload

OwnerSpec == Init /\ [][NextOwners]_vars

\* ------------------------------------------------------- API requests ---
\* the most handles the model lets requests leave open
MaxHandles == 2

\* the trace of a request handled with the statements steps
Served(steps) == Handle(steps, 1, << >>)

\* the handles left open after a request with trace t
HandlesAfter(t) == handles + Acquired(t) - Released(t)

\* the API can take a request with trace t: the workers have taken the
\* messages of the requests before
Accepts(t) == queue = << >> /\ HandlesAfter(t) <= MaxHandles

\* the requests routed to pinHashToCluster
Requests_pinHashToCluster ==
    Requests("pinHashToCluster",
             {"alice"}, {Form(FALSE, "")}, CidForms,
             HoldForms)

PinHashToCluster ==
    \E r \in Requests_pinHashToCluster :
        \E t \in {Served(pinHashToCluster(r))} :
            /\ Accepts(t)
            /\ req' = r
            /\ trace' = t
            /\ queue' = Published(t)
            /\ handles' = HandlesAfter(t)
            /\ UNCHANGED << uploads, now, last, pc, pending, run, saved, inflight, ip, qm, result, exHeaders, extraHeaders, statusAll >>

\* the requests routed to removePinFromCluster
Requests_removePinFromCluster ==
    Requests("removePinFromCluster",
             {"alice", AdminAddress}, {Form(FALSE, "")}, CidForms,
             {Form(FALSE, << >>)})

RemovePinFromCluster ==
    \E r \in Requests_removePinFromCluster :
        \E t \in {Served(removePinFromCluster(r))} :
            /\ Accepts(t)
            /\ req' = r
            /\ trace' = t
            /\ queue' = Published(t)
            /\ handles' = HandlesAfter(t)
            /\ UNCHANGED << uploads, now, last, pc, pending, run, saved, inflight, ip, qm, result, exHeaders, extraHeaders, statusAll >>

\* the requests routed to pinToHostedIPFSNetwork
Requests_pinToHostedIPFSNetwork ==
    Requests("pinToHostedIPFSNetwork",
             {"alice"}, NetworkForms, CidForms,
             HoldForms)

PinToHostedIPFSNetwork ==
    \E r \in Requests_pinToHostedIPFSNetwork :
        \E t \in {Served(pinToHostedIPFSNetwork(r))} :
            /\ Accepts(t)
            /\ req' = r
            /\ trace' = t
            /\ queue' = Published(t)
            /\ handles' = HandlesAfter(t)
            /\ UNCHANGED << uploads, now, last, pc, pending, run, saved, inflight, ip, qm, result, exHeaders, extraHeaders, statusAll >>

\* the requests routed to addFileToHostedIPFSNetworkAdvanced
Requests_addFileToHostedIPFSNetworkAdvanced ==
    Requests("addFileToHostedIPFSNetworkAdvanced",
             {"alice"}, NetworkForms, {""},
             HoldForms)

AddFileToHostedIPFSNetworkAdvanced ==
    \E r \in Requests_addFileToHostedIPFSNetworkAdvanced :
        \E t \in {Served(addFileToHostedIPFSNetworkAdvanced(r))} :
            /\ Accepts(t)
            /\ req' = r
            /\ trace' = t
            /\ queue' = Published(t)
            /\ handles' = HandlesAfter(t)
            /\ UNCHANGED << uploads, now, last, pc, pending, run, saved, inflight, ip, qm, result, exHeaders, extraHeaders, statusAll >>

\* the requests routed to addFileToHostedIPFSNetwork
Requests_addFileToHostedIPFSNetwork ==
    Requests("addFileToHostedIPFSNetwork",
             {"alice"}, NetworkForms, Hashes,
             HoldForms)

AddFileToHostedIPFSNetwork ==
    \E r \in Requests_addFileToHostedIPFSNetwork :
        \E t \in {Served(addFileToHostedIPFSNetwork(r))} :
            /\ Accepts(t)
            /\ req' = r
            /\ trace' = t
            /\ queue' = Published(t)
            /\ handles' = HandlesAfter(t)
            /\ UNCHANGED << uploads, now, last, pc, pending, run, saved, inflight, ip, qm, result, exHeaders, extraHeaders, statusAll >>

\* the requests routed to removePinFromLocalHostForHostedIPFSNetwork
Requests_removePinFromLocalHostForHostedIPFSNetwork ==
    Requests("removePinFromLocalHostForHostedIPFSNetwork",
             {"alice"}, NetworkForms, CidForms,
             {Form(FALSE, << >>)})

RemovePinFromLocalHostForHostedIPFSNetwork ==
    \E r \in Requests_removePinFromLocalHostForHostedIPFSNetwork :
        \E t \in {Served(removePinFromLocalHostForHostedIPFSNetwork(r))} :
            /\ Accepts(t)
            /\ req' = r
            /\ trace' = t
            /\ queue' = Published(t)
            /\ handles' = HandlesAfter(t)
            /\ UNCHANGED << uploads, now, last, pc, pending, run, saved, inflight, ip, qm, result, exHeaders, extraHeaders, statusAll >>

\* the requests routed to publishDetailedIPNSToHostedIPFSNetwork
Requests_publishDetailedIPNSToHostedIPFSNetwork ==
    Requests("publishDetailedIPNSToHostedIPFSNetwork",
             {"alice"}, NetworkForms, CidForms,
             {Form(FALSE, << >>)})

PublishDetailedIPNSToHostedIPFSNetwork ==
    \E r \in Requests_publishDetailedIPNSToHostedIPFSNetwork :
        \E t \in {Served(publishDetailedIPNSToHostedIPFSNetwork(r))} :
            /\ Accepts(t)
            /\ req' = r
            /\ trace' = t
            /\ queue' = Published(t)
            /\ handles' = HandlesAfter(t)
            /\ UNCHANGED << uploads, now, last, pc, pending, run, saved, inflight, ip, qm, result, exHeaders, extraHeaders, statusAll >>

\* the requests routed to getUploadsByNetworkName
Requests_getUploadsByNetworkName ==
    Requests("getUploadsByNetworkName",
             {"alice"}, NetworkForms, {""},
             {Form(FALSE, << >>)})

GetUploadsByNetworkName ==
    \E r \in Requests_getUploadsByNetworkName :
        \E t \in {Served(getUploadsByNetworkName(r))} :
            /\ Accepts(t)
            /\ req' = r
            /\ trace' = t
            /\ queue' = Published(t)
            /\ handles' = HandlesAfter(t)
            /\ UNCHANGED << uploads, now, last, pc, pending, run, saved, inflight, ip, qm, result, exHeaders, extraHeaders, statusAll >>

\* the workers take the messages the broker holds
Deliver ==
    /\ queue # << >>
    /\ queue' = << >>
    /\ UNCHANGED << uploads, now, last, pc, pending, run, saved, req, trace, handles, inflight, ip, qm, result, exHeaders, extraHeaders, statusAll >>

NextApi ==
    \/ PinHashToCluster
    \/ RemovePinFromCluster
    \/ PinToHostedIPFSNetwork
    \/ AddFileToHostedIPFSNetworkAdvanced
    \/ AddFileToHostedIPFSNetwork
    \/ RemovePinFromLocalHostForHostedIPFSNetwork
    \/ PublishDetailedIPNSToHostedIPFSNetwork
    \/ GetUploadsByNetworkName
    \/ Deliver

ApiSpec == Init /\ [][NextApi]_vars

\* ------------------------------------------------- the read queries ---
\* the ledger of several users and contents, and the reads by content
QueryNewUpload ==
    /\ \E hash \in Hashes, type \in Types, net \in Networks, user \in Owners,
          name \in Names, hold \in ValidHolds :
         LET r == NewUpload(uploads, now, hash, type, net, user, name, hold, FALSE)
         IN  /\ Len(r.uploads) <= MaxRows
             /\ uploads' = r.uploads
             /\ last' = Call("NewUpload", hash, net, user, hold, r.err,
                             r.upload, << >>, -1)
    /\ UNCHANGED << now, queue, pc, pending, run, saved, req, trace, handles, inflight, ip, qm, result, exHeaders, extraHeaders, statusAll >>

CallFindUploadsByHash ==
    /\ \E hash \in Hashes :
         /\ result' = FindUploadsByHash(uploads, hash)
         /\ last' = Call("FindUploadsByHash", hash, "", "", 0, "nil", NoUpload,
                         << >>, -1)
    /\ UNCHANGED << uploads, now, queue, pc, pending, run, saved, req, trace, handles, inflight, ip, qm, exHeaders, extraHeaders, statusAll >>

CallGetUploadByHashForUser ==
    /\ \E hash \in Hashes, user \in Owners :
         /\ result' = GetUploadByHashForUser(uploads, hash, user)
         /\ last' = Call("GetUploadByHashForUser", hash, "", user, 0, "nil",
                         NoUpload, << >>, -1)
    /\ UNCHANGED << uploads, now, queue, pc, pending, run, saved, req, trace, handles, inflight, ip, qm, exHeaders, extraHeaders, statusAll >>

NextQuery ==
    \/ Tick
    \/ QueryNewUpload
    \/ CallRunDatabaseGarbageCollection
    \/ CallFindUploadsByHash
    \/ CallGetUploadByHashForUser

QuerySpec == Init /\ [][NextQuery]_vars

\* ------------------------------------------------ the local error sync ---
MaxStatus == 3      \* entries in one enumeration of the local statuses

\* the statuses a CID is observed in; an error or an unexpected state needs
\* repair
Statuses == {"pinned", "pin-error", "unexpected-state"}
NeedsRepair(status) == status \in {"pin-error", "unexpected-state"}

\* a sync that repairs a CID every time the enumeration reports it
RECURSIVE ErrorsAsReported(_, _, _)
ErrorsAsReported(entries, i, cids) ==
    IF i > Len(entries) THEN cids
    ELSE ErrorsAsReported(entries, i + 1,
           IF NeedsRepair(entries[i][2]) THEN Append(cids, entries[i][1])
           ELSE cids)

\* the CIDs of the entries from i on that need repair and are not in cids
\* yet, added to cids in the order they are first reported
RECURSIVE Errors(_, _, _)
Errors(entries, i, cids) ==
    IF i > Len(entries) THEN cids
    ELSE Errors(entries, i + 1,
           IF /\ NeedsRepair(entries[i][2])
              /\ \A k \in 1..Len(cids) : cids[k] # entries[i][1]
             THEN Append(cids, entries[i][1])
             ELSE cids)

\* manager.ParseLocalStatusAllAndSync(): enumerates the local statuses, or
\* fails; then repairs every CID that needs it and returns these CIDs
ParseLocalStatusAllAndSync(r, entries) ==
    LET syncedCids == Errors(entries, 1, << >>)
    IN  [ steps |-> << Service(r, "StatusAll", "", "IPFSClusterStatusError") >>
                      \o [k \in 1..Len(syncedCids) |->
                            Step("Sync", syncedCids[k], TRUE, "", "", NoIntent)],
          syncedCids |-> syncedCids ]

\* routes_rtfs_cluster.go
syncClusterErrorsLocally(r, entries) ==
    << Step("AdminAddress", r.user, r.user = AdminAddress, "",
            "FailNotAuthorized", NoIntent),
       Service(r, "rtfs_cluster.Initialize", "", "IPFSConnectionError") >>
      \o ParseLocalStatusAllAndSync(r, entries).steps

\* the requests routed to syncClusterErrorsLocally
Requests_syncClusterErrorsLocally ==
    { Request("syncClusterErrorsLocally", user, Form(FALSE, ""), "",
              Form(FALSE, << >>), fails) :
        user \in {"alice", AdminAddress},
        fails \in {NoFailure, << "rtfs_cluster.Initialize", "" >>,
                   << "StatusAll", "" >>} }

\* the cluster reports the status of a CID, any CID any number of times:
\* an entry << CID, status >> of the enumeration the next sync is given, the
\* first one after a sync starting a new enumeration
Report ==
    /\ \E cid \in Hashes, status \in Statuses :
         LET entries == IF req = NoRequest THEN statusAll ELSE << >>
         IN  /\ Len(entries) < MaxStatus
             /\ statusAll' = Append(entries, << cid, status >>)
    /\ req' = NoRequest
    /\ trace' = << >>
    /\ result' = << >>
    /\ UNCHANGED << uploads, now, queue, last, pc, pending, run, saved, handles, inflight, ip, qm, exHeaders, extraHeaders >>

SyncClusterErrorsLocally ==
    /\ req = NoRequest
    /\ \E r \in Requests_syncClusterErrorsLocally :
         \E t \in {Served(syncClusterErrorsLocally(r, statusAll))} :
            /\ req' = r
            /\ trace' = t
            /\ result' = IF t[Len(t)] = RespondOK
                           THEN ParseLocalStatusAllAndSync(r, statusAll).syncedCids
                           ELSE << >>
    /\ UNCHANGED << uploads, now, queue, last, pc, pending, run, saved, handles, inflight, ip, qm, exHeaders, extraHeaders, statusAll >>

NextSync ==
    \/ Report
    \/ SyncClusterErrorsLocally

SyncSpec == Init /\ [][NextSync]_vars

\* ---------------------------------------------- the content download ---
MaxHeaders == 4     \* elements of the extra_headers form

\* the strings a caller sends as names and values of headers
HeaderWords == {"a", "b"}

\* c.PostFormArray("extra_headers"): any list of strings, none included
HeaderForms == UNION {[1..n -> HeaderWords] : n \in 0..MaxHeaders}

\* extraHeaders[header] = value
Put(m, header, value) ==
    [h \in DOMAIN m \cup {header} |-> IF h = header THEN value ELSE m[h]]

\* for i := 1; i < len(exHeaders)-1; i += 2, on a Go slice: its elements
\* i-1 and i are the elements i and i+1 of the sequence
RECURSIVE ParseExtraHeaders(_, _, _)
ParseExtraHeaders(headers, i, m) ==
    IF i < Len(headers) - 1
      THEN ParseExtraHeaders(headers, i + 2, Put(m, headers[i], headers[i + 1]))
      ELSE m

\* c.DataFromReader(200, ...): the content is sent
DataFromReader == Event("DataFromReader", "200", TRUE, NoIntent)

\* part_001: the statements of the handler that may end the request with
\* an error
downloadContentHashForPrivateNetwork(r, headers) ==
    << GetPostForm("network_name", r.networkName),
       CheckAccessForPrivateNetwork(r),
       Service(r, "GetAPIURLByName", r.networkName.value, "APIURLCheckError"),
       DecodeHash(r),
       Service(r, "rtfs.Initialize", "", "IPFSConnectionError"),
       Service(r, "Cat", r.hash, "IPFSCatError"),
       Service(r, "GetObjectFileSizeInBytes", r.hash, "IPFSObjectStatError"),
       Step("len(exHeaders)%2", "", Len(headers) % 2 = 0, "", "FailOnError",
            NoIntent) >>

\* the requests routed to downloadContentHashForPrivateNetwork
Requests_downloadContentHashForPrivateNetwork ==
    { Request("downloadContentHashForPrivateNetwork", "alice", networkName,
              hash, Form(FALSE, << >>), fails) :
        networkName \in NetworkForms, hash \in {"Qm1", "Qm!"},
        fails \in {NoFailure,
                   << "CheckAccessForPrivateNetwork", "net1" >>,
                   << "Cat", "Qm1" >>,
                   << "GetObjectFileSizeInBytes", "Qm1" >>} }

\* the handler ends with c.DataFromReader, and not with Respond, when no
\* statement has ended the request; the headers are parsed after the size
\* of the object is known
DownloadContentHashForPrivateNetwork ==
    \E r \in Requests_downloadContentHashForPrivateNetwork, headers \in HeaderForms :
        \E t \in {Served(downloadContentHashForPrivateNetwork(r, headers))} :
            /\ req' = r
            /\ exHeaders' = headers
            /\ IF t[Len(t)] = RespondOK
                 THEN /\ trace' = SubSeq(t, 1, Len(t) - 1) \o << DataFromReader >>
                      /\ extraHeaders' = ParseExtraHeaders(headers, 1, << >>)
                 ELSE /\ trace' = t
                      /\ extraHeaders' = << >>
            /\ UNCHANGED << uploads, now, queue, last, pc, pending, run, saved, handles, inflight, ip, qm, result, statusAll >>

NextDownload == DownloadContentHashForPrivateNetwork

DownloadSpec == Init /\ [][NextDownload]_vars

\* ------------------------------------------- requests handled at once ---
\* the place of the first step of steps that makes one of the calls evs
StepAt(steps, evs) ==
    CHOOSE i \in 1..Len(steps) :
        /\ steps[i].ev \in evs
        /\ \A j \in 1..(i - 1) : steps[j].ev \notin evs

\* the requests of the two handlers that build their message, connect to the
\* queue and publish
PublisherRequests ==
    Requests_pinToHostedIPFSNetwork \cup Requests_addFileToHostedIPFSNetworkAdvanced

\* the memory a handler keeps its message in, had the handlers one variable
\* for all requests
SharedSlot(w) == "w1"

\* the memory a handler keeps its message in: ip and ifp are local variables,
\* each request has its own
Slot(w) == w

\* worker w takes a request and runs its handler up to queue.Initialize: the
\* checks of the request, and the message built from it
Receive(w) ==
    /\ pc[w] = "idle"
    /\ \E r \in PublisherRequests :
         \E steps \in {Statements(r)} :
           LET init == StepAt(steps, {"queue.Initialize"})
               send == StepAt(steps, {"PublishMessage", "PublishMessageWithExchange"})
           IN  /\ inflight' = [inflight EXCEPT ![w] = r]
               /\ IF \E i \in 1..(init - 1) : ~steps[i].ok
                    THEN /\ pc' = [pc EXCEPT ![w] = "failed"]
                         /\ ip' = ip
                    ELSE /\ pc' = [pc EXCEPT ![w] = "built"]
                         /\ ip' = [ip EXCEPT ![Slot(w)] = steps[send].intent]
    /\ UNCHANGED << uploads, now, queue, last, pending, run, saved, req, trace, handles, qm, result, exHeaders, extraHeaders, statusAll >>

\* qm, err := queue.Initialize(...): the handle is the request's own
Connect(w) ==
    /\ pc[w] = "built"
    /\ \E steps \in {Statements(inflight[w])} :
         LET init == steps[StepAt(steps, {"queue.Initialize"})]
         IN  IF init.ok
               THEN /\ qm' = [qm EXCEPT ![w] = init.arg]
                    /\ handles' = handles + 1
                    /\ pc' = [pc EXCEPT ![w] = "connected"]
               ELSE /\ pc' = [pc EXCEPT ![w] = "failed"]
                    /\ UNCHANGED << qm, handles >>
    /\ UNCHANGED << uploads, now, queue, last, pending, run, saved, req, trace, inflight, ip, result, exHeaders, extraHeaders, statusAll >>

\* qm.PublishMessage(ip): the broker takes the message the handler holds,
\* then the handler answers
Send(w) ==
    /\ pc[w] = "connected"
    /\ \E steps \in {Statements(inflight[w])} :
         LET send == steps[StepAt(steps, {"PublishMessage", "PublishMessageWithExchange"})]
         IN  IF send.ok
               THEN /\ queue' = Append(queue, ip[Slot(w)])
                    /\ pc' = [pc EXCEPT ![w] = "published"]
               ELSE /\ pc' = [pc EXCEPT ![w] = "failed"]
                    /\ queue' = queue
    /\ UNCHANGED << uploads, now, last, pending, run, saved, req, trace, handles, inflight, ip, qm, result, exHeaders, extraHeaders, statusAll >>

NextPub ==
    \/ \E w \in Workers : Receive(w)
    \/ \E w \in Workers : Connect(w)
    \/ \E w \in Workers : Send(w)

PubSpec == Init /\ [][NextPub]_vars

\* ---------------------------------------------------------------- claims ---
Max(a, b) == IF a > b THEN a ELSE b

\* IDs of the rows of tbl that are not soft-deleted
ActiveIDs(tbl) == {i \in 1..Len(tbl) : ~tbl[i].Deleted}

\* IDs of the active rows of tbl for one (contentID, network, user)
ActiveWithKey(tbl, hash, net, user) ==
    {i \in ActiveIDs(tbl) : /\ tbl[i].Hash = hash
                            /\ tbl[i].NetworkName = net
                            /\ tbl[i].UserName = user}

\* IDs of the rows active in uploads that the step soft-deletes
Removed == {i \in ActiveIDs(uploads) : uploads'[i].Deleted}

\* the step is a call of UpdateUpload that returned a record and no error
RenewSucceeds ==
    /\ last'.op = "UpdateUpload"
    /\ last'.err = "nil"
    /\ last'.upload # NoUpload

C3_RenewKeepsMaximum ==
    [][ RenewSucceeds =>
          LET id == last'.upload.ID
          IN  uploads'[id].GarbageCollectDate =
                Max(uploads[id].GarbageCollectDate,
                    CalculateGarbageCollectDate(now, last'.hold)) ]_vars

\* C4: an UpdateUpload with a hold time smaller than the one the record
\* holds (the one NewUpload stored) leaves GarbageCollectDate as it was.
C4_SmallerHoldKeepsDate ==
    [][ RenewSucceeds =>
          LET id == last'.upload.ID
          IN  last'.hold < uploads[id].HoldTimeInMonths =>
                uploads'[id].GarbageCollectDate = uploads[id].GarbageCollectDate
      ]_vars

C4_Witness ==
    /\ last.op = "UpdateUpload"
    /\ last.err = "nil"
    /\ last.upload # NoUpload
    /\ last.hold < last.upload.HoldTimeInMonths
    /\ uploads[last.upload.ID] = last.upload

\* C5: no step lowers the GarbageCollectDate of a record that stays in the
\* ledger, whatever hold times UpdateUpload is called with and whenever.
C5_DateNeverDecreases ==
    [][ \A id \in ActiveIDs(uploads) :
          ~uploads'[id].Deleted =>
             uploads'[id].GarbageCollectDate >= uploads[id].GarbageCollectDate
      ]_vars

C5_Witness ==
    /\ last.op = "UpdateUpload"
    /\ last.err = "nil"
    /\ last.upload # NoUpload
    /\ CalculateGarbageCollectDate(now, last.hold) < last.upload.GarbageCollectDate
    /\ now > 0

\* C6: a run of RunDatabaseGarbageCollection at time now that returns no
\* error deletes and returns exactly the records with GarbageCollectDate
\* <= now, the ones with GarbageCollectDate = now among them.
C6_SweepRemovesExactlyDue ==
    [][ (last'.op = "RunDatabaseGarbageCollection" /\ last'.err = "nil") =>
          LET due == {i \in ActiveIDs(uploads) :
                        uploads[i].GarbageCollectDate <= now}
          IN  /\ Removed = due
              /\ {last'.deleted[k].ID : k \in 1..Len(last'.deleted)} = due
      ]_vars

\* C7: a run of RunDatabaseGarbageCollection that directly follows a run
\* which returned no error, at the same time, returns no record and no
\* error and leaves the table as it was.
C7_SecondSweepIsEmpty ==
    [][ (last'.op = "RunDatabaseGarbageCollection" /\ last'.prev >= 0) =>
          ( /\ last'.err = "nil"
            /\ last'.deleted = << >>
            /\ uploads' = uploads ) ]_vars

C7_Witness ==
    /\ last.op = "RunDatabaseGarbageCollection"
    /\ last.prev > 0
    /\ last.deleted = << >>
    /\ ActiveIDs(uploads) # {}

\* C8: a sweep of the garbage collector publishes, for every content ID, as
\* many removal intents as the sweep deleted records of that content ID: one
\* for each deleted record, none for a record that stays.
C8_OneIntentPerDeletedRecord ==
    [][ last'.op = "sweep" =>
          LET published == SubSeq(queue', Len(queue) + 1, Len(queue'))
          IN  \A h \in Hashes :
                Cardinality({k \in 1..Len(published) : published[k].hash = h})
                  = Cardinality({i \in Removed : uploads[i].Hash = h}) ]_vars

\* C9: a record leaves the ledger only in a garbage-collection run, and only
\* when its GarbageCollectDate is earlier than the time of the run.
C9_DeletedOnlyWhenPassed ==
    [][ \A id \in Removed :
          /\ last'.op \in {"RunDatabaseGarbageCollection",
                           "RunTestDatabaseGarbageCollection"}
          /\ uploads[id].GarbageCollectDate < now ]_vars

\* C2: in every state, also one reached by NewUpload calls that interleave
\* between their lookup and their INSERT, a (contentID, network, user) has
\* at most one active record.
C2_AtMostOneActivePerKey ==
    \A hash \in Hashes, net \in Networks, user \in Users :
        Cardinality(ActiveWithKey(uploads, hash, net, user)) <= 1

\* C10: the collector deletes no row that was saved after the Find of its
\* run read it, and a row that is deleted stays deleted.
C10_RenewAndSweepExclude ==
    [][ /\ \A id \in Removed : id \notin saved
        /\ \A id \in 1..Len(uploads) :
              uploads[id].Deleted => uploads'[id].Deleted ]_vars

\* C11: in a run of RunDatabaseGarbageCollection in which one Delete fails,
\* the loop goes on to the expired records that follow, so that at most the
\* one record whose Delete failed stays expired and active, and the run
\* returns every record it deleted.
C11_SweepContinuesPastFailure ==
    [][ last'.op = "RunDatabaseGarbageCollection" =>
          LET expired == {i \in ActiveIDs(uploads) : Expired(now, uploads[i])}
          IN  /\ Cardinality(expired \ Removed) <= 1
              /\ {last'.deleted[k].ID : k \in 1..Len(last'.deleted)} = Removed
      ]_vars

\* C12: an UpdateUpload for a (contentID, network, user) that has no active
\* record returns the record-not-found error and no record, and leaves the
\* table, its rows and their number, as it was.
C12_RenewOfMissingFails ==
    [][ ( /\ last'.op = "UpdateUpload"
          /\ ActiveWithKey(uploads, last'.hash, last'.net, last'.user) = {} )
        => ( /\ last'.err = "record not found"
             /\ last'.upload = NoUpload
             /\ uploads' = uploads ) ]_vars

\* a renewal refused while the ledger holds another record of the same user
\* and network and a deleted one
C12_Witness ==
    /\ last.op = "UpdateUpload"
    /\ last.err = "record not found"
    /\ ActiveWithKey(uploads, last.hash, last.net, last.user) = {}
    /\ \E i \in ActiveIDs(uploads) : /\ uploads[i].NetworkName = last.net
                                     /\ uploads[i].UserName = last.user
    /\ \E i \in 1..Len(uploads) : uploads[i].Deleted

\* the index pairs of a record's UserNames that hold the same name
Repeats(u) ==
    {p \in (1..Len(u.UserNames)) \X (1..Len(u.UserNames)) :
        p[1] < p[2] /\ u.UserNames[p[1]] = u.UserNames[p[2]]}

\* C13: where only NewUpload and UpdateUpload run, a user has created the
\* content on the network exactly when the ledger holds the user's record of
\* it; the UserNames of every record of a content and network then name the
\* user of every record of that content and network.
C13_CoOwnersNameEveryUser ==
    \A i \in ActiveIDs(uploads), j \in ActiveIDs(uploads) :
        ( /\ uploads[i].Hash = uploads[j].Hash
          /\ uploads[i].NetworkName = uploads[j].NetworkName )
        => \E k \in 1..Len(uploads[i].UserNames) :
              uploads[i].UserNames[k] = uploads[j].UserName

\* C14: no record of the ledger holds the same name twice in UserNames.
C14_CoOwnersUnique ==
    \A i \in ActiveIDs(uploads) : Repeats(uploads[i]) = {}

\* a renewal by a user the record names already, saved, while another user
\* holds a record of the same content
C14_Witness ==
    /\ last.op = "UpdateUpload"
    /\ last.err = "nil"
    /\ last.upload # NoUpload
    /\ uploads[last.upload.ID] = last.upload
    /\ \E k \in 1..Len(last.upload.UserNames) :
          last.upload.UserNames[k] = last.user
    /\ \E i \in ActiveIDs(uploads) : uploads[i].UserName # last.user

\* the handlers that take a network_name
NetworkHandlers ==
    {"pinToHostedIPFSNetwork", "addFileToHostedIPFSNetworkAdvanced",
     "addFileToHostedIPFSNetwork", "removePinFromLocalHostForHostedIPFSNetwork",
     "publishDetailedIPNSToHostedIPFSNetwork", "getUploadsByNetworkName"}

PublishCalls == {"PublishMessage", "PublishMessageWithExchange"}

QueueCalls == {"queue.Initialize"} \cup PublishCalls

FailHelpers ==
    {"FailOnError", "FailOnServerError", "FailNoExistPostForm",
     "FailNotAuthorized"}

\* the places of the trace where the handler made one of the calls evs
Calls(evs) == {i \in 1..Len(trace) : trace[i].ev \in evs}

\* the places of the trace where one of the calls evs returned an error
Failed(evs) == {i \in Calls(evs) : ~trace[i].ok}

\* C15: in the request of a handler that takes a network_name, every
\* queue.Initialize, every publish and every FindUploadsByNetwork comes after
\* a CheckAccessForPrivateNetwork that returned no error; a request whose
\* access check fails makes none of these calls.
C15_AccessCheckedFirst ==
    req.handler \in NetworkHandlers =>
        \A i \in Calls(QueueCalls \cup {"FindUploadsByNetwork"}) :
            \E j \in 1..(i - 1) :
                trace[j].ev = "CheckAccessForPrivateNetwork" /\ trace[j].ok

\* a request refused by the access check, while an earlier request has left
\* a handle open
C15_Witness ==
    /\ req.handler \in NetworkHandlers
    /\ Failed({"CheckAccessForPrivateNetwork"}) # {}
    /\ Calls(QueueCalls \cup {"FindUploadsByNetwork"}) = {}
    /\ queue = << >>
    /\ handles > 0

\* C16: when a request is over, every queue handle it acquired is released:
\* no handle is open between requests.
C16_HandlesReleased == handles = 0

\* C17: a queue.Initialize or a publish that fails is logged and answered
\* with FailOnServerError, in every handler, and not with FailOnError, the
\* helper that answers a content ID gocid.Decode refuses.
C17_QueueFailureIsServerError ==
    \A i \in Failed(QueueCalls) :
        /\ i + 2 = Len(trace)
        /\ trace[i + 1].ev = "LogError"
        /\ trace[i + 2].ev = "FailOnServerError"

\* a hold time that is an integer >= 0
HoldIsNat(hold) ==
    IF hold.type = "int64" THEN hold.val >= 0
    ELSE Atoi(hold.text).err = "nil" /\ Atoi(hold.text).val >= 0

\* C18: every record of the ledger has a HoldTimeInMonths >= 0, and every
\* message the broker holds that carries a hold time carries an integer >= 0.
C18_HoldTimeIsNatural ==
    /\ \A i \in ActiveIDs(uploads) : uploads[i].HoldTimeInMonths >= 0
    /\ \A k \in 1..Len(queue) :
          queue[k].hold.type # "none" => HoldIsNat(queue[k].hold)

\* C19: the content ID of every pin, cluster-pin, pin-removal and IPNS
\* message published and of every cluster pin removal issued is one
\* gocid.Decode takes, and a request whose content ID gocid.Decode refuses
\* has made no publish, no removal, no queue.Initialize and no
\* rtfs_cluster.Initialize.
C19_NoConnectionForBadCid ==
    /\ \A k \in 1..Len(queue) :
          queue[k].kind \in {"IPFSPin", "IPFSClusterPin", "IPFSPinRemoval",
                             "IPNSEntry"}
            => Decode(queue[k].hash).err = "nil"
    /\ \A i \in Calls({"RemovePinFromCluster"}) : Decode(trace[i].arg).err = "nil"
    /\ Failed({"gocid.Decode"}) # {} =>
          Calls(QueueCalls \cup {"RemovePinFromCluster",
                                 "rtfs_cluster.Initialize"}) = {}

\* the number of messages the handler of a request publishes
Publishes(r) ==
    Cardinality({i \in 1..Len(Statements(r)) : Statements(r)[i].ev \in PublishCalls})

\* C20: a trace holds Respond only as its last entry, after a successful
\* publish of every message the handler publishes, each on a handle whose
\* queue.Initialize succeeded; a trace in which queue.Initialize or a
\* publish failed holds no Respond and ends with an error response.
C20_SuccessAfterEveryPublish ==
    /\ \A i \in Calls({"Respond"}) :
          /\ i = Len(trace)
          /\ Failed(QueueCalls) = {}
          /\ Cardinality(Calls(PublishCalls)) = Publishes(req)
          /\ Cardinality(Calls({"queue.Initialize"})) = Publishes(req)
    /\ Failed(QueueCalls) # {} =>
          /\ Calls({"Respond"}) = {}
          /\ trace[Len(trace)].ev \in FailHelpers

\* addFileToHostedIPFSNetwork with its first message accepted and its second
\* publish failing
C20_Witness ==
    /\ req.handler = "addFileToHostedIPFSNetwork"
    /\ Len(queue) = 1
    /\ Failed(PublishCalls) # {}
    /\ Calls({"Respond"}) = {}

\* the message the request worker w handles publishes
Intended(w) ==
    LET steps == Statements(inflight[w])
    IN  steps[StepAt(steps, {"PublishMessage", "PublishMessageWithExchange"})].intent

\* the workers whose publish the broker has accepted
Accepted == {w \in Workers : pc[w] = "published"}

\* C21: with requests handled at once, the broker holds as many messages as
\* publishes have succeeded, and of each message as many copies as requests
\* have published it: no publish is lost or replaced by another's.
C21_NoPublishLost ==
    /\ Len(queue) = Cardinality(Accepted)
    /\ \A w \in Accepted :
          Cardinality({k \in 1..Len(queue) : queue[k] = Intended(w)})
            = Cardinality({v \in Accepted : Intended(v) = Intended(w)})

\* two requests with different messages for the same queue, both built
\* before either was published, both accepted
C21_Witness ==
    /\ Accepted = Workers
    /\ qm["w1"] = qm["w2"]
    /\ Intended("w1") # Intended("w2")
    /\ ip["w1"] = Intended("w1")
    /\ ip["w2"] = Intended("w2")
    /\ Len(queue) = 2

\* the active records of the ledger with the given hash and one of the users
Matching(hash, users) ==
    SelectSeq(Find(uploads), LAMBDA u : u.Hash = hash /\ u.UserName \in users)

\* C22: FindUploadsByHash(hash) returns all and only the active records with
\* that hash, GetUploadByHashForUser(hash, user) all and only those with that
\* hash and that user; nothing matching, each returns an empty collection.
C22_ReadsReturnExactlyTheMatching ==
    /\ last.op = "FindUploadsByHash" => result = Matching(last.hash, Owners)
    /\ last.op = "GetUploadByHashForUser" =>
          result = Matching(last.hash, {last.user})

\* C23: in one local error sync no CID is repaired twice, also when the
\* enumeration reports it twice, and the list of repaired CIDs the sync
\* returns holds each CID at most once.
C23_EachCidRepairedOnce ==
    req.handler = "syncClusterErrorsLocally" =>
        /\ \A i, j \in Calls({"Sync"}) : trace[i].arg = trace[j].arg => i = j
        /\ \A i, j \in 1..Len(result) : result[i] = result[j] => i = j

\* a sync that was told of one CID in error and, later, of the same CID in
\* an unexpected state, and answered with that CID
C23_Witness ==
    /\ req.handler = "syncClusterErrorsLocally"
    /\ \E i, j \in 1..Len(statusAll) :
          /\ i < j
          /\ statusAll[i] = << "Qm1", "pin-error" >>
          /\ statusAll[j] = << "Qm1", "unexpected-state" >>
    /\ trace[Len(trace)] = RespondOK
    /\ Cardinality(Calls({"Sync"})) = 1
    /\ result = << "Qm1" >>

\* C24: the stored HoldTimeInMonths and GarbageCollectDate of a record
\* agree: a call that stores a hold time, in a new record or in place of
\* another hold time, stores with it the date computed from that hold time
\* at the time of the call.
C24_HoldAndDateAgree ==
    [][ \A id \in ActiveIDs(uploads') :
          (\/ id \notin ActiveIDs(uploads)
           \/ uploads'[id].HoldTimeInMonths # uploads[id].HoldTimeInMonths)
            => uploads'[id].GarbageCollectDate =
                 CalculateGarbageCollectDate(now, uploads'[id].HoldTimeInMonths)
      ]_vars

\* C25: UpdateUpload returns a record and no error, or no record and an
\* error, never neither: a call whose Save fails returns an error.
C25_RenewReturnsRecordOrError ==
    last.op = "UpdateUpload" =>
        \/ last.upload # NoUpload /\ last.err = "nil"
        \/ last.upload = NoUpload /\ last.err # "nil"

\* the (name, value) pairs of a list of even length: elements (1, 2),
\* (3, 4), ... of the sequence
PairsOf(headers) == 1..(Len(headers) \div 2)

\* the headers these pairs make, a later pair winning on a repeated name
AllPairs(headers) ==
    [h \in {headers[2 * j - 1] : j \in PairsOf(headers)} |->
        LET latest == CHOOSE j \in PairsOf(headers) :
                        /\ headers[2 * j - 1] = h
                        /\ \A k \in PairsOf(headers) :
                              headers[2 * k - 1] = h => k <= j
        IN  headers[2 * latest]]

\* C26: a download that sends the content sends, as extra headers, every
\* pair of an extra_headers list of even length, a later pair winning on a
\* repeated name; a request with a list of odd length ends with an error
\* and sends no content.
C26_EveryPairIsSent ==
    req.handler = "downloadContentHashForPrivateNetwork" =>
        /\ Calls({"DataFromReader"}) # {} => extraHeaders = AllPairs(exHeaders)
        /\ Len(exHeaders) % 2 = 1 =>
              /\ Calls({"DataFromReader"}) = {}
              /\ trace[Len(trace)].ev \in FailHelpers

====
